---- MODULE Spec2Model ----
(***************************************************************************)
(* Model of gerrymander/reports.py: the report output tree                 *)
(* (ReportOutputColumn, ReportOutputList, ReportOutputTable), the          *)
(* ReportTable base class and the aggregation helpers of the concrete      *)
(* reports.                                                                *)
(*                                                                         *)
(* Conventions                                                             *)
(*   - a Python str is a sequence of one-character strings;                *)
(*   - a raw (unformatted) Python value is a record [t, i, s]: t is the    *)
(*     Python type ("none", "int", "str"), i the integer, s the string;    *)
(*   - an optional value (title, limit) is a sequence of length 0 (None)   *)
(*     or 1;                                                               *)
(*   - a dict is the sequence of its (key, value) pairs in insertion order;*)
(*   - a row of a table carries an id, which stands for the identity of    *)
(*     the Python object and records the order of the add_row calls.       *)
(***************************************************************************)
EXTENDS Integers, Sequences, FiniteSets, TLC

VARIABLES
    table,      \* the ReportOutputTable: columns, rows, sortcol, reverse, limit, title
    added,      \* history: the rows given to add_row of the table, in call order
    out,        \* what to_xml / to_json / to_text of the table returned since its last change
    lst,        \* the ReportOutputList: columns, row, title
    lout,       \* what to_xml / to_json / to_text of the list returned
    report,     \* the ReportTable: columns, sort, reverse, limit
    call,       \* the last ReportTable call: operation, arguments, outcome
    fin,        \* the arguments of a helper function under test
    fout        \* what the helper function returned

vars == <<table, added, out, lst, lout, report, call, fin, fout>>

-----------------------------------------------------------------------------
(* Bounds *)

MaxRows == 3
MaxLimit == 2
MaxTruncate == 3
MaxStr == 4
MaxVotes == 2
MaxBucket == 4

-----------------------------------------------------------------------------
(* Python values *)

None == [t |-> "none", i |-> 0, s |-> <<>>]
PyInt(n) == [t |-> "int", i |-> n, s |-> <<>>]
PyStr(x) == [t |-> "str", i |-> 0, s |-> x]

Digit(d) == <<"0", "1", "2", "3", "4", "5", "6", "7", "8", "9">>[d + 1]

RECURSIVE IntToStr(_)
IntToStr(n) ==
    IF n < 0 THEN <<"-">> \o IntToStr(-n)
    ELSE IF n < 10 THEN <<Digit(n)>>
    ELSE IntToStr(n \div 10) \o <<Digit(n % 10)>>

\* str(val)
Str(val) ==
    CASE val.t = "str" -> val.s
      [] val.t = "int" -> IntToStr(val.i)
      [] val.t = "none" -> <<"N", "o", "n", "e">>

\* format % val for the conversion the reports use on integers, "%d" (the
\* only format of the model): a TypeError for a value that is no number
NoFormat == "None"
FormatPercent(format, val) ==
    IF val.t = "int" THEN [raised |-> "", val |-> PyStr(IntToStr(val.i))]
    ELSE [raised |-> "TypeError", val |-> None]

-----------------------------------------------------------------------------
(* ReportOutputColumn *)

\* mapfunc(report, key, row) and sortfunc(report, key, row): the columns
\* of the model read one field of the row
NoFunc == "None"
mapfunc(col, row) == row[col.mapfunc]
sortfunc(col, row) == row[col.sortfunc]

\* get_value up to the truncation: the value of mapfunc, formatted if the
\* column has a format, "" for None, str(val) for anything that is no str
formatted_value(col, row) ==
    LET val == mapfunc(col, row)
        fmt == IF col.format # NoFormat THEN FormatPercent(col.format, val)
               ELSE IF val.t = "none" THEN [raised |-> "", val |-> PyStr(<<>>)]
               ELSE [raised |-> "", val |-> val]
    IN  IF fmt.raised # "" THEN fmt
        ELSE IF fmt.val.t # "str" THEN [raised |-> "", val |-> PyStr(Str(fmt.val))]
        ELSE fmt

\* faulty variant: truncates a value of exactly truncate characters too
get_value_off_by_one(col, row) ==
    LET fmt == formatted_value(col, row)
        val == fmt.val.s
    IN  IF fmt.raised # "" THEN fmt
        ELSE IF col.truncate # 0 /\ Len(val) >= col.truncate
        THEN [raised |-> "",
              val |-> PyStr(SubSeq(val, 1, col.truncate) \o <<".", ".", ".">>)]
        ELSE fmt

\* get_value(report, row): what it raises, or the value it returns
get_value(col, row) ==
    LET fmt == formatted_value(col, row)
        val == fmt.val.s
        \* val[0:truncate]: a negative truncate counts from the end
        cut == IF col.truncate >= 0 THEN col.truncate
               ELSE IF Len(val) + col.truncate > 0 THEN Len(val) + col.truncate
               ELSE 0
    IN  IF fmt.raised # "" THEN fmt
        ELSE IF col.truncate # 0 /\ Len(val) > col.truncate
        THEN [raised |-> "", val |-> PyStr(SubSeq(val, 1, cut) \o <<".", ".", ".">>)]
        ELSE fmt

get_sort_value(col, row) ==
    IF col.sortfunc # NoFunc THEN sortfunc(col, row) ELSE mapfunc(col, row)

-----------------------------------------------------------------------------
(* Python list and dict operations *)

Min(x, y) == IF x < y THEN x ELSE y
Max(x, y) == IF x > y THEN x ELSE y

\* s[0:stop]; a negative stop counts from the end of the list
Slice(s, stop) ==
    IF stop >= 0 THEN SubSeq(s, 1, Min(stop, Len(s)))
    ELSE SubSeq(s, 1, Max(0, Len(s) + stop))

Reverse(s) == [i \in 1..Len(s) |-> s[Len(s) + 1 - i]]

\* raw values of one type compare by value (the sort keys of the model are
\* integers)
Less(x, y) == x.i < y.i

\* x goes before the first element whose key is greater than x's: an insertion
\* that keeps elements of equal key in their order of arrival
RECURSIVE InsertByKey(_, _, _)
InsertByKey(sorted, x, col) ==
    IF sorted = <<>> THEN <<x>>
    ELSE IF Less(get_sort_value(col, x), get_sort_value(col, Head(sorted)))
         THEN <<x>> \o sorted
         ELSE <<Head(sorted)>> \o InsertByKey(Tail(sorted), x, col)

RECURSIVE StableSort(_, _, _)
StableSort(s, col, done) ==
    IF s = <<>> THEN done
    ELSE StableSort(Tail(s), col, InsertByKey(done, Head(s), col))

\* faulty variant: a descending order made by reversing the ascending one,
\* which turns the order of equal keys around on every call
ListSort_reverse_after(s, col, reverse) ==
    IF reverse THEN Reverse(StableSort(s, col, <<>>))
    ELSE StableSort(s, col, <<>>)

\* list.sort(key=..., reverse=...): a stable ascending sort; with reverse the
\* list is reversed before and after it, so that its order is descending and
\* equal keys still keep their original order
ListSort(s, col, reverse) ==
    IF reverse THEN Reverse(StableSort(Reverse(s), col, <<>>))
    ELSE StableSort(s, col, <<>>)

\* d[k] = v
RECURSIVE DictSet(_, _, _)
DictSet(d, k, v) ==
    IF d = <<>> THEN <<[k |-> k, v |-> v]>>
    ELSE IF Head(d).k = k THEN <<[k |-> k, v |-> v]>> \o Tail(d)
    ELSE <<Head(d)>> \o DictSet(Tail(d), k, v)

-----------------------------------------------------------------------------
(* Columns and rows the tables of the model are built from *)

Column(key, label, mf, sf, format, truncate, align, visible) ==
    [key |-> key, label |-> label, mapfunc |-> mf, sortfunc |-> sf,
     format |-> format, truncate |-> truncate, align |-> align,
     visible |-> visible]

ALIGN_LEFT == "l"
ALIGN_RIGHT == "r"

ColA == Column("a", <<"A">>, "a", NoFunc, NoFormat, 0, ALIGN_LEFT, TRUE)
ColH == Column("h", <<"H">>, "b", NoFunc, NoFormat, 0, ALIGN_LEFT, FALSE)
ColB == Column("b", <<"B">>, "b", NoFunc, "%d", 0, ALIGN_RIGHT, TRUE)
\* a column added to a table after its construction, with a sortfunc
ColC == Column("c", <<"C">>, "a", "b", NoFormat, 0, ALIGN_LEFT, TRUE)

COLUMNS == <<ColA, ColH, ColB>>

\* the entities delivered as rows: two fields each
Entities ==
    { [a |-> PyInt(2), b |-> PyInt(1)],
      [a |-> PyInt(1), b |-> PyInt(1)],
      [a |-> PyInt(1), b |-> PyInt(2)] }

NoKey == "None"
SortKeys == {"a", "c", "zz"}
Limits == {<<>>} \cup {<<n>> : n \in -1..MaxLimit}
Titles == {<<>>, <<"T">>}

-----------------------------------------------------------------------------
(* ReportOutputTable *)

ReportOutputTable(columns, sortcol, reverse, limit, title) ==
    [columns |-> columns, rows |-> <<>>, sortcol |-> sortcol,
     reverse |-> reverse, limit |-> limit, title |-> title]

NoTable == [columns |-> <<>>, rows |-> <<>>, sortcol |-> NoKey,
            reverse |-> FALSE, limit |-> <<>>, title |-> <<>>]

NoOut == [xml |-> <<>>, json |-> <<>>, text |-> <<>>]

\* the column sort_rows resolves self.sortcol to: the last one of that key
RECURSIVE FindColumn(_, _, _)
FindColumn(columns, key, found) ==
    IF columns = <<>> THEN found
    ELSE FindColumn(Tail(columns), key,
                    IF Head(columns).key = key THEN <<Head(columns)>> ELSE found)

\* self.rows after sort_rows()
sort_rows(t) ==
    LET sortcol == FindColumn(t.columns, t.sortcol, <<>>)
    IN  IF sortcol # <<>> THEN ListSort(t.rows, sortcol[1], t.reverse)
        ELSE t.rows

\* faulty variant: the limit cuts self.rows as stored before the sort
LimitRows_before_sort(t, rows) ==
    IF t.limit # <<>> THEN Slice(t.rows, t.limit[1]) ELSE rows

\* rows = self.rows; if self.limit is not None: rows = rows[0:self.limit]
LimitRows(t, rows) ==
    IF t.limit # <<>> THEN Slice(rows, t.limit[1]) ELSE rows

Visible(columns) == SelectSeq(columns, LAMBDA col : col.visible)

RowIds(rows) == [i \in 1..Len(rows) |-> rows[i].id]

\* the <table> element to_xml appends to the root
XmlTable(t, rows) ==
    LET cols == Visible(t.columns)
    IN  [title |-> t.title,
         headers |-> [i \in 1..Len(cols) |-> [tag |-> cols[i].key, text |-> cols[i].label]],
         content |-> [r \in 1..Len(rows) |->
                        [i \in 1..Len(cols) |->
                            [tag |-> cols[i].key, text |-> get_value(cols[i], rows[r]).val.s]]]]

\* headers = {}; for col in self.columns: if col.visible: headers[col.key] = col.label
RECURSIVE JsonHeaders(_, _)
JsonHeaders(columns, headers) ==
    IF columns = <<>> THEN headers
    ELSE JsonHeaders(Tail(columns),
                     IF Head(columns).visible
                     THEN DictSet(headers, Head(columns).key, Head(columns).label)
                     ELSE headers)

\* faulty variant: no test of col.visible
RECURSIVE JsonData_all_columns(_, _, _)
JsonData_all_columns(columns, row, data) ==
    IF columns = <<>> THEN data
    ELSE JsonData_all_columns(Tail(columns), row,
                  DictSet(data, Head(columns).key, get_value(Head(columns), row).val.s))

\* data = {}; for col in self.columns: if col.visible: data[col.key] = ...
RECURSIVE JsonData(_, _, _)
JsonData(columns, row, data) ==
    IF columns = <<>> THEN data
    ELSE JsonData(Tail(columns), row,
                  IF Head(columns).visible
                  THEN DictSet(data, Head(columns).key, get_value(Head(columns), row).val.s)
                  ELSE data)

\* the {"table": ...} node to_json appends to the root
JsonTable(t, rows) ==
    [title |-> t.title,
     headers |-> JsonHeaders(t.columns, <<>>),
     content |-> [r \in 1..Len(rows) |-> JsonData(t.columns, rows[r], <<>>)]]

RECURSIVE TableAlign(_, _)
TableAlign(columns, align) ==
    IF columns = <<>> THEN align
    ELSE TableAlign(Tail(columns), DictSet(align, Head(columns).label, Head(columns).align))

\* format_title(title) of gerrymander.format
format_title(title) == <<"format_title", title>>

\* the text of to_text: the title banner and the PrettyTable (field names,
\* alignment set per label, one list of cells per row)
TextTable(t, rows) ==
    LET cols == Visible(t.columns)
    IN  [prolog |-> IF t.title # <<>> THEN <<format_title(t.title[1])>> ELSE <<>>,
         fields |-> [i \in 1..Len(cols) |-> cols[i].label],
         align |-> TableAlign(t.columns, <<>>),
         rows |-> [r \in 1..Len(rows) |->
                     [i \in 1..Len(cols) |-> get_value(cols[i], rows[r]).val.s]]]

Rendering(ids, doc) == <<[ids |-> ids, doc |-> doc]>>

add_column(col) ==
    /\ table # NoTable
    /\ table' = [table EXCEPT !.columns = Append(@, col)]
    /\ out' = NoOut
    /\ UNCHANGED added

add_row(e) ==
    /\ table # NoTable
    /\ Len(added) < MaxRows
    /\ LET row == [id |-> Len(added) + 1, a |-> e.a, b |-> e.b]
       IN  /\ table' = [table EXCEPT !.rows = Append(@, row)]
           /\ added' = Append(added, row)
    /\ out' = NoOut

\* table.sortcol = key, as generate() assigns it
set_sortcol(key) ==
    /\ table # NoTable
    /\ key # table.sortcol
    /\ table' = [table EXCEPT !.sortcol = key]
    /\ out' = NoOut
    /\ UNCHANGED added

\* table.reverse = reverse
set_reverse(reverse) ==
    /\ table # NoTable
    /\ reverse # table.reverse
    /\ table' = [table EXCEPT !.reverse = reverse]
    /\ out' = NoOut
    /\ UNCHANGED added

to_xml ==
    /\ table # NoTable
    /\ LET sorted == sort_rows(table)
           rows == LimitRows(table, sorted)
       IN  /\ table' = [table EXCEPT !.rows = sorted]
           /\ UNCHANGED added
           /\ out' = [out EXCEPT !.xml = Rendering(RowIds(rows), XmlTable(table, rows))]

to_json ==
    /\ table # NoTable
    /\ LET sorted == sort_rows(table)
           rows == LimitRows(table, sorted)
       IN  /\ table' = [table EXCEPT !.rows = sorted]
           /\ UNCHANGED added
           /\ out' = [out EXCEPT !.json = Rendering(RowIds(rows), JsonTable(table, rows))]

to_text ==
    /\ table # NoTable
    /\ LET sorted == sort_rows(table)
           rows == LimitRows(table, sorted)
       IN  /\ table' = [table EXCEPT !.rows = sorted]
           /\ UNCHANGED added
           /\ out' = [out EXCEPT !.text = Rendering(RowIds(rows), TextTable(table, rows))]

-----------------------------------------------------------------------------
(* The output table: constructed, filled, reconfigured and rendered *)

NoList == [columns |-> <<>>, row |-> <<>>, title |-> <<>>]
NoReport == [columns |-> <<>>, sort |-> NoKey, reverse |-> FALSE, limit |-> <<>>,
             usecolor |-> <<>>]
NoCall == [op |-> "", columns |-> <<>>, key |-> NoKey, reverse |-> FALSE, raised |-> ""]
NoFin == <<>>
NoFout == <<>>

Init ==
    /\ \E sortcol \in SortKeys, reverse \in BOOLEAN, limit \in Limits, title \in Titles :
          table = ReportOutputTable(COLUMNS, sortcol, reverse, limit, title)
    /\ added = <<>>
    /\ out = NoOut
    /\ lst = NoList
    /\ lout = NoOut
    /\ report = NoReport
    /\ call = NoCall
    /\ fin = NoFin
    /\ fout = NoFout

\* one column is added to a table, of a key the table does not have yet (keys
\* are unique within a column set)
TableAddColumn ==
    /\ Len(table.columns) = Len(COLUMNS)
    /\ add_column(ColC)
    /\ UNCHANGED <<lst, lout, report, call, fin, fout>>

TableAddRow ==
    /\ \E e \in Entities : add_row(e)
    /\ UNCHANGED <<lst, lout, report, call, fin, fout>>

TableSetSortcol ==
    /\ \E key \in SortKeys : set_sortcol(key)
    /\ UNCHANGED <<lst, lout, report, call, fin, fout>>

TableSetReverse ==
    /\ \E reverse \in BOOLEAN : set_reverse(reverse)
    /\ UNCHANGED <<lst, lout, report, call, fin, fout>>

TableToXml == to_xml /\ UNCHANGED <<lst, lout, report, call, fin, fout>>
TableToJson == to_json /\ UNCHANGED <<lst, lout, report, call, fin, fout>>
TableToText == to_text /\ UNCHANGED <<lst, lout, report, call, fin, fout>>

Next ==
    \/ TableAddColumn
    \/ TableAddRow
    \/ TableSetSortcol
    \/ TableSetReverse
    \/ TableToXml
    \/ TableToJson
    \/ TableToText

Spec == Init /\ [][Next]_vars

-----------------------------------------------------------------------------
(* ReportOutputList *)

ReportOutputList(columns, title) ==
    [columns |-> columns, row |-> [set |-> FALSE, a |-> None, b |-> None],
     title |-> title]

\* the mapfuncs of a list index the row (row[0], row[1]): a KeyError on the
\* empty dict the constructor leaves in self.row
ListRaises(l) ==
    IF ~l.row.set /\ Visible(l.columns) # <<>> THEN "KeyError" ELSE ""

Raised(e) == <<[raised |-> e]>>

ListXml(l) ==
    LET cols == Visible(l.columns)
    IN  [raised |-> "",
         title |-> l.title,
         headers |-> [i \in 1..Len(cols) |-> [tag |-> cols[i].key, text |-> cols[i].label]],
         content |-> [i \in 1..Len(cols) |->
                        [tag |-> cols[i].key, text |-> get_value(cols[i], l.row).val.s]]]

ListJson(l) ==
    [raised |-> "",
     title |-> l.title,
     headers |-> JsonHeaders(l.columns, <<>>),
     content |-> JsonData(l.columns, l.row, <<>>)]

\* width = 1; for col in self.columns: if col.visible: width = max(width, len(col.label))
RECURSIVE LabelWidth(_, _)
LabelWidth(columns, width) ==
    IF columns = <<>> THEN width
    ELSE LabelWidth(Tail(columns),
                    IF Head(columns).visible /\ Len(Head(columns).label) > width
                    THEN Len(Head(columns).label) ELSE width)

Spaces(n) == [i \in 1..n |-> " "]

\* ("  %" + str(width) + "s: %s") % (label, value)
ListLine(width, label, value) ==
    <<" ", " ">> \o Spaces(Max(0, width - Len(label))) \o label \o <<":", " ">> \o value

\* the loop that builds lines: line is assigned for a visible column only,
\* and appended for every column; line is <<>> while it is unbound
RECURSIVE ListLines(_, _, _, _, _)
ListLines(columns, row, width, line, lines) ==
    IF columns = <<>> THEN [raised |-> "", lines |-> lines]
    ELSE LET col == Head(columns)
             line1 == IF col.visible
                      THEN <<ListLine(width, col.label, get_value(col, row).val.s)>>
                      ELSE line
         IN  IF col.visible /\ ~row.set THEN [raised |-> "KeyError", lines |-> lines]
             ELSE IF line1 = <<>> THEN [raised |-> "UnboundLocalError", lines |-> lines]
             ELSE ListLines(Tail(columns), row, width, line1, Append(lines, line1[1]))

\* to_text: the title banner and the lines joined by newlines
ListText(l) ==
    LET built == ListLines(l.columns, l.row, LabelWidth(l.columns, 1), <<>>, <<>>)
    IN  [raised |-> built.raised,
         prolog |-> IF l.title # <<>> THEN <<format_title(l.title[1])>> ELSE <<>>,
         lines |-> built.lines]

set_row(row) ==
    /\ lst' = [lst EXCEPT !.row = row]
    /\ lout' = NoOut

list_to_xml ==
    /\ lout' = [lout EXCEPT !.xml = IF ListRaises(lst) # "" THEN Raised(ListRaises(lst))
                                    ELSE <<ListXml(lst)>>]
    /\ UNCHANGED lst

list_to_json ==
    /\ lout' = [lout EXCEPT !.json = IF ListRaises(lst) # "" THEN Raised(ListRaises(lst))
                                     ELSE <<ListJson(lst)>>]
    /\ UNCHANGED lst

list_to_text ==
    /\ lout' = [lout EXCEPT !.text = IF ListText(lst).raised # ""
                                     THEN Raised(ListText(lst).raised)
                                     ELSE <<ListText(lst)>>]
    /\ UNCHANGED lst

\* the columns and rows the lists of the model are built from
ListColA == Column("a", <<"A">>, "a", NoFunc, "%d", 0, ALIGN_LEFT, TRUE)
ListColB == Column("b", <<"B", "b">>, "b", NoFunc, NoFormat, 2, ALIGN_LEFT, TRUE)
ListColC == Column("c", <<"C", "c", "c">>, "a", NoFunc, NoFormat, 0, ALIGN_LEFT, TRUE)
ListPool == {ListColA, ListColB, ListColC}

\* every column set of distinct keys, each column visible or hidden
ListColumnSets ==
    { cols \in UNION { [1..n -> { [c EXCEPT !.visible = v] : c \in ListPool, v \in BOOLEAN }]
                       : n \in 0..Cardinality(ListPool) } :
        \A i, j \in 1..Len(cols) : i # j => cols[i].key # cols[j].key }

ListRows ==
    { [set |-> TRUE, a |-> PyInt(7), b |-> PyStr(<<"x", "y", "z">>)],
      [set |-> TRUE, a |-> PyInt(12), b |-> None] }

InitList ==
    /\ \E columns \in ListColumnSets, title \in Titles :
          lst = ReportOutputList(columns, title)
    /\ lout = NoOut
    /\ table = NoTable
    /\ added = <<>>
    /\ out = NoOut
    /\ report = NoReport
    /\ call = NoCall
    /\ fin = NoFin
    /\ fout = NoFout

ListSetRow ==
    /\ \E row \in ListRows : set_row(row)
    /\ UNCHANGED <<table, added, out, report, call, fin, fout>>

ListToXml == list_to_xml /\ UNCHANGED <<table, added, out, report, call, fin, fout>>
ListToJson == list_to_json /\ UNCHANGED <<table, added, out, report, call, fin, fout>>
ListToText == list_to_text /\ UNCHANGED <<table, added, out, report, call, fin, fout>>

NextList ==
    \/ ListSetRow
    \/ ListToXml
    \/ ListToJson
    \/ ListToText

SpecList == InitList /\ [][NextList]_vars

-----------------------------------------------------------------------------
(* Properties of the rendered table *)

Formats == {"xml", "json", "text"}

Rendered(f) == out[f] # <<>>
RenderedIds(f) == out[f][1].ids
\* the rows of a rendering as it holds them: <row> elements, dicts, grid rows
RenderedRows(f) == IF f = "text" THEN out[f][1].doc.rows ELSE out[f][1].doc.content

Resolved == \E i \in 1..Len(table.columns) : table.columns[i].key = table.sortcol
SortColumn == FindColumn(table.columns, table.sortcol, <<>>)[1]
AddedRow(id) == added[id]
SortKey(id) == get_sort_value(SortColumn, AddedRow(id)).i
IsPermutation(s, t) ==
    /\ Len(s) = Len(t)
    /\ \A i \in 1..Len(s) : Cardinality({j \in 1..Len(s) : s[j] = s[i]})
                            = Cardinality({j \in 1..Len(t) : t[j] = s[i]})

\* the rendered rows are in the order of the sort keys, in the direction of
\* reverse
KeyOrdered(ids) ==
    \A i, j \in 1..Len(ids) :
        i < j => IF table.reverse THEN SortKey(ids[i]) >= SortKey(ids[j])
                 ELSE SortKey(ids[i]) <= SortKey(ids[j])

\* of two rendered rows of equal sort key, the one added first comes first
TiesInAddOrder(ids) ==
    \A i, j \in 1..Len(ids) :
        (i < j /\ SortKey(ids[i]) = SortKey(ids[j])) => ids[i] < ids[j]

\* C1: a rendering under a sortcol that matches a column has its rows ordered
\* by that column's get_sort_value, ascending or (reverse) descending, and rows
\* of equal sort key in the order of their add_row calls.
C1_SortedStableInAddOrder ==
    \A f \in Formats :
        (Rendered(f) /\ Resolved) =>
            KeyOrdered(RenderedIds(f)) /\ TiesInAddOrder(RenderedIds(f))

\* the part of C1 that the code keeps: the order of the sort keys
C1_KeyOrdered ==
    \A f \in Formats : (Rendered(f) /\ Resolved) => KeyOrdered(RenderedIds(f))

\* C2: a rendering under a sortcol that matches no column has the rows in the
\* order of their add_row calls (cut to the limit), whatever was added, set or
\* rendered before.
C2_UnresolvedInAddOrder ==
    \A f \in Formats :
        (Rendered(f) /\ ~Resolved) =>
            RenderedIds(f) = LimitRows(table, RowIds(added))

\* C3: with limit L and n rows, a rendering holds exactly the first min(L, n)
\* rows of the sorted sequence.
C3_LimitIsMin ==
    \A f \in Formats :
        (Rendered(f) /\ table.limit # <<>>) =>
            /\ RenderedIds(f) = SubSeq(RowIds(table.rows), 1, Min(table.limit[1], Len(added)))
            /\ Len(RenderedRows(f)) = Len(RenderedIds(f))

\* the number of rows rows[0:limit] keeps of n
LimitCount(n) ==
    IF table.limit = <<>> THEN n
    ELSE IF table.limit[1] >= 0 THEN Min(table.limit[1], n)
    ELSE Max(0, n + table.limit[1])

\* C3 (amended): with limit L >= 0 a rendering holds exactly the first
\* min(L, n) rows of the sorted sequence, with a negative L the first
\* max(0, n + L), with no limit all n; the rows stay ordered by the sort key,
\* so the limit cuts after the sort; and the table keeps every row added.
C3_LimitAfterSort ==
    \A f \in Formats :
        Rendered(f) =>
            /\ Len(RenderedRows(f)) = LimitCount(Len(added))
            /\ Len(RenderedIds(f)) = LimitCount(Len(added))
            /\ RenderedIds(f) = SubSeq(RowIds(table.rows), 1, Len(RenderedIds(f)))
            /\ Resolved => KeyOrdered(RowIds(table.rows))
            /\ IsPermutation(table.rows, added)

C3_Witness ==
    /\ Rendered("xml") /\ Rendered("json") /\ Rendered("text")
    /\ Resolved
    /\ table.limit = <<1>>
    /\ Len(added) = 3
    /\ RenderedIds("xml") # <<1>>

\* C7: to_xml and to_json of one table give the same title, the same
\* (key, label) headers, the same number of rows in the same order and the
\* same value under every visible column key of every row.
XmlPairs(elems) == [i \in 1..Len(elems) |-> <<elems[i].tag, elems[i].text>>]
JsonPairs(dict) == [i \in 1..Len(dict) |-> <<dict[i].k, dict[i].v>>]

C7_XmlJsonEquivalent ==
    (Rendered("xml") /\ Rendered("json")) =>
        LET x == out.xml[1]
            j == out.json[1]
        IN  /\ x.doc.title = j.doc.title
            /\ XmlPairs(x.doc.headers) = JsonPairs(j.doc.headers)
            /\ x.ids = j.ids
            /\ Len(x.doc.content) = Len(j.doc.content)
            /\ \A r \in 1..Len(x.doc.content) :
                  XmlPairs(x.doc.content[r]) = JsonPairs(j.doc.content[r])

C7_Witness ==
    /\ Rendered("xml") /\ Rendered("json")
    /\ Resolved /\ table.reverse
    /\ Len(table.columns) > Len(COLUMNS)
    /\ Len(out.xml[1].doc.content) = 2
    /\ out.xml[1].ids # <<1, 2>>
    /\ out.xml[1].doc.title # <<>>

-----------------------------------------------------------------------------
(* ReportTable *)

\* faulty variant: the key is not looked up
set_sort_column_unchecked(r, key, reverse) ==
    [raised |-> "", report |-> [r EXCEPT !.sort = key, !.reverse = reverse]]

\* set_sort_column(key, reverse): what it raises and the report it leaves
set_sort_column(r, key, reverse) ==
    LET got == \E i \in 1..Len(r.columns) : r.columns[i].key = key
    IN  IF ~got THEN [raised |-> "Exception", report |-> r]
        ELSE [raised |-> "", report |-> [r EXCEPT !.sort = key, !.reverse = reverse]]

\* ReportTable.__init__(client, columns, sort, reverse): self.columns and
\* self.limit are set before set_sort_column; sort and usecolor are not
ReportTable(columns, sort, reverse) ==
    set_sort_column([columns |-> columns, sort |-> NoKey, reverse |-> FALSE,
                     limit |-> <<>>, usecolor |-> <<>>],
                    sort, reverse)

\* new_table(title): a table over a copy of the columns; self.usecolor is an
\* attribute only a subclass sets
new_table(r, title) ==
    IF r.usecolor = <<>> THEN [raised |-> "AttributeError", table |-> NoTable]
    ELSE [raised |-> "",
          table |-> ReportOutputTable(r.columns, r.sort, r.reverse, r.limit, title)]

\* the parameters ReportTable.__init__ accepts besides self
ReportTableParams == {"client", "columns", "sort", "reverse"}

\* ReportPatchReviewStats.COLUMNS: the keys, labels and alignments; the
\* mapfuncs read the row [user, votes, userteam]
PatchReviewStatsCOLUMNS ==
    << Column("user", <<"User">>, "user", NoFunc, NoFormat, 0, ALIGN_LEFT, TRUE),
       Column("team", <<"Team">>, "team", NoFunc, NoFormat, 0, ALIGN_LEFT, TRUE),
       Column("reviews", <<"Reviews">>, "total", NoFunc, NoFormat, 0, ALIGN_RIGHT, TRUE),
       Column("flag-m2", <<"-2">>, "flag-m2", NoFunc, NoFormat, 0, ALIGN_RIGHT, TRUE),
       Column("flag-m1", <<"-1">>, "flag-m1", NoFunc, NoFormat, 0, ALIGN_RIGHT, TRUE),
       Column("flag-p1", <<"+1">>, "flag-p1", NoFunc, NoFormat, 0, ALIGN_RIGHT, TRUE),
       Column("flag-p2", <<"+2">>, "flag-p2", NoFunc, NoFormat, 0, ALIGN_RIGHT, TRUE),
       Column("ratio", <<"+/-">>, "ratio", NoFunc, "%0.0lf%%", 0, ALIGN_RIGHT, TRUE) >>

\* ReportPatchReviewStats(client, projects, maxagedays, teams, usecolor):
\* the constructor passes columns, sort, reverse and usecolor on to
\* ReportTable.__init__, and a call with a keyword the callee does not
\* accept is a TypeError before the callee's body runs
ReportPatchReviewStats(usecolor) ==
    LET passed == {"client", "columns", "sort", "reverse", "usecolor"}
    IN  IF ~(passed \subseteq ReportTableParams)
        THEN [raised |-> "TypeError", report |-> NoReport]
        ELSE ReportTable(PatchReviewStatsCOLUMNS, "reviews", TRUE)

ReportColumnSets == {COLUMNS, <<ColA, ColC>>}
ReportKeys == {"a", "c", "zz", NoKey}

\* report = ReportTable(client, columns, sort, reverse); a constructor that
\* raises leaves the name bound to the report it was bound to
ReportInit ==
    /\ \E columns \in ReportColumnSets, key \in ReportKeys, reverse \in BOOLEAN :
          LET res == ReportTable(columns, key, reverse)
          IN  /\ report' = IF res.raised = "" THEN res.report ELSE report
              /\ call' = [op |-> "init", columns |-> columns, key |-> key,
                          reverse |-> reverse, raised |-> res.raised]
    /\ UNCHANGED <<table, added, out, lst, lout, fin, fout>>

ReportSetSortColumn ==
    /\ report # NoReport
    /\ \E key \in ReportKeys, reverse \in BOOLEAN :
          LET res == set_sort_column(report, key, reverse)
          IN  /\ report' = res.report
              /\ call' = [op |-> "set_sort_column", columns |-> report.columns,
                          key |-> key, reverse |-> reverse, raised |-> res.raised]
    /\ UNCHANGED <<table, added, out, lst, lout, fin, fout>>

\* set_data_limit(limit)
ReportSetDataLimit ==
    /\ report # NoReport
    /\ \E limit \in Limits :
          /\ report' = [report EXCEPT !.limit = limit]
          /\ call' = [op |-> "set_data_limit", columns |-> report.columns,
                      key |-> NoKey, reverse |-> FALSE, raised |-> ""]
    /\ UNCHANGED <<table, added, out, lst, lout, fin, fout>>

\* self.usecolor = usecolor, in the constructor of a subclass
ReportSetUsecolor ==
    /\ report # NoReport
    /\ report.usecolor = <<>>
    /\ \E usecolor \in BOOLEAN : report' = [report EXCEPT !.usecolor = <<usecolor>>]
    /\ call' = [op |-> "usecolor", columns |-> report.columns,
                key |-> NoKey, reverse |-> FALSE, raised |-> ""]
    /\ UNCHANGED <<table, added, out, lst, lout, fin, fout>>

ReportNewTable ==
    /\ report # NoReport
    /\ \E title \in Titles :
          LET res == new_table(report, title)
          IN  /\ table' = IF res.raised = "" THEN res.table ELSE table
              /\ added' = IF res.raised = "" THEN <<>> ELSE added
              /\ out' = IF res.raised = "" THEN NoOut ELSE out
              /\ call' = [op |-> "new_table", columns |-> report.columns,
                          key |-> NoKey, reverse |-> FALSE, raised |-> res.raised]
    /\ UNCHANGED <<report, lst, lout, fin, fout>>

\* table.add_column(...) on a table new_table returned
ReportTableAddColumn ==
    /\ \A i \in 1..Len(table.columns) : table.columns[i].key # ColH.key
    /\ add_column(ColH)
    /\ UNCHANGED <<lst, lout, report, call, fin, fout>>

\* report = ReportPatchReviewStats(client, projects, ...)
PatchReviewStatsInit ==
    /\ \E usecolor \in BOOLEAN :
          LET res == ReportPatchReviewStats(usecolor)
          IN  /\ report' = IF res.raised = "" THEN res.report ELSE report
              /\ call' = [op |-> "ReportPatchReviewStats",
                          columns |-> PatchReviewStatsCOLUMNS, key |-> "reviews",
                          reverse |-> TRUE, raised |-> res.raised]
    /\ UNCHANGED <<table, added, out, lst, lout, fin, fout>>

InitReport ==
    /\ report = NoReport
    /\ call = NoCall
    /\ table = NoTable
    /\ added = <<>>
    /\ out = NoOut
    /\ lst = NoList
    /\ lout = NoOut
    /\ fin = NoFin
    /\ fout = NoFout

NextReport ==
    \/ ReportInit
    \/ ReportSetSortColumn
    \/ ReportSetDataLimit
    \/ ReportSetUsecolor
    \/ ReportNewTable
    \/ ReportTableAddColumn
    \/ PatchReviewStatsInit

SpecReport == InitReport /\ [][NextReport]_vars

-----------------------------------------------------------------------------
(* ReportOutputColumn.get_value and get_sort_value on one column and row *)

Chars == {"x", "y"}
Strings == UNION { [1..n -> Chars] : n \in 0..MaxStr }
RawValues ==
    {None} \cup {PyInt(n) : n \in {-5, 0, 7, 12, 123, 1234}} \cup {PyStr(x) : x \in Strings}

InitColumn ==
    /\ \E format \in {NoFormat, "%d"}, truncate \in -1..MaxTruncate, val \in RawValues,
          sf \in {NoFunc, "b"} :
          fin = [col |-> Column("a", <<"A">>, "a", sf, format, truncate, ALIGN_LEFT, TRUE),
                 row |-> [a |-> val, b |-> PyInt(Len(val.s))]]
    /\ fout = NoFout
    /\ table = NoTable
    /\ added = <<>>
    /\ out = NoOut
    /\ lst = NoList
    /\ lout = NoOut
    /\ report = NoReport
    /\ call = NoCall

ColumnGetValue ==
    /\ fout' = <<[op |-> "get_value", res |-> get_value(fin.col, fin.row)]>>
    /\ UNCHANGED <<fin, table, added, out, lst, lout, report, call>>

ColumnGetSortValue ==
    /\ fout' = <<[op |-> "get_sort_value",
                  res |-> [raised |-> "", val |-> get_sort_value(fin.col, fin.row)]]>>
    /\ UNCHANGED <<fin, table, added, out, lst, lout, report, call>>

NextColumn ==
    \/ ColumnGetValue
    \/ ColumnGetSortValue

SpecColumn == InitColumn /\ [][NextColumn]_vars

-----------------------------------------------------------------------------
(* ReportPatchReviewStats: the map functions of the vote statistics rows *)

RECURSIVE GCD(_, _)
GCD(x, y) == IF y = 0 THEN x ELSE GCD(y, x % y)

\* the number num / den (den > 0), in lowest terms; the rounding of the
\* float the code computes it in is left out
Rational(num, den) == [num |-> num \div GCD(num, den), den |-> den \div GCD(num, den)]

\* ratio_mapfunc(rep, col, row): a float division, which raises
\* ZeroDivisionError on a zero divisor
ratio_mapfunc(row) ==
    LET plus == row[2].votes["flag-p2"] + row[2].votes["flag-p1"]
        minus == row[2].votes["flag-m2"] + row[2].votes["flag-m1"]
    IN  IF plus + minus = 0 THEN [raised |-> "ZeroDivisionError", val |-> Rational(0, 1)]
        ELSE [raised |-> "", val |-> Rational(plus * 100, plus + minus)]

\* vote_mapfunc(rep, col, row)
vote_mapfunc(col, row) == row[2].votes[col]

\* review_mapfunc(rep, col, row)
review_mapfunc(row) == row[2].total

VoteKeys == {"flag-m2", "flag-m1", "flag-p1", "flag-p2"}

\* a row [user, votes, userteam] as generate() adds it, and the row of a
\* reviewer without a vote
InitRatio ==
    /\ \E votes \in [VoteKeys -> 0..MaxVotes] :
          fin = <<"user",
                  [votes |-> votes,
                   total |-> votes["flag-m2"] + votes["flag-m1"]
                             + votes["flag-p1"] + votes["flag-p2"]],
                  "">>
    /\ fout = NoFout
    /\ table = NoTable
    /\ added = <<>>
    /\ out = NoOut
    /\ lst = NoList
    /\ lout = NoOut
    /\ report = NoReport
    /\ call = NoCall

RatioMapfunc ==
    /\ fout' = <<[op |-> "ratio", res |-> ratio_mapfunc(fin)]>>
    /\ UNCHANGED <<fin, table, added, out, lst, lout, report, call>>

ReviewMapfunc ==
    /\ fout' = <<[op |-> "reviews",
                  res |-> [raised |-> "", val |-> Rational(review_mapfunc(fin), 1)]]>>
    /\ UNCHANGED <<fin, table, added, out, lst, lout, report, call>>

VoteMapfunc ==
    /\ \E col \in VoteKeys :
          fout' = <<[op |-> col,
                     res |-> [raised |-> "", val |-> Rational(vote_mapfunc(col, fin), 1)]]>>
    /\ UNCHANGED <<fin, table, added, out, lst, lout, report, call>>

NextRatio ==
    \/ RatioMapfunc
    \/ ReviewMapfunc
    \/ VoteMapfunc

SpecRatio == InitRatio /\ [][NextRatio]_vars

-----------------------------------------------------------------------------
(* ReportOpenReviewStats: the aggregation helpers over a bucket of ids *)

\* format_delta(delta) of gerrymander.format: the text of a duration
format_delta(delta) == PyStr(IntToStr(delta) \o <<"s">>)

RECURSIVE InsertInt(_, _)
InsertInt(sorted, x) ==
    IF sorted = <<>> THEN <<x>>
    ELSE IF x < Head(sorted) THEN <<x>> \o sorted
    ELSE <<Head(sorted)>> \o InsertInt(Tail(sorted), x)

\* wantages.sort()
RECURSIVE SortInts(_, _)
SortInts(s, done) ==
    IF s = <<>> THEN done ELSE SortInts(Tail(s), InsertInt(done, Head(s)))

\* faulty variant: the lower middle element
median_age_lower(changes, ages) ==
    IF Len(changes) = 0 THEN PyInt(0)
    ELSE LET wantages == SortInts([i \in 1..Len(changes) |-> ages[changes[i]]], <<>>)
         IN  format_delta(wantages[(Len(wantages) - 1) \div 2 + 1])

\* median_age(changes, ages); a Python list is indexed from 0
median_age(changes, ages) ==
    IF Len(changes) = 0 THEN PyInt(0)
    ELSE LET wantages == SortInts([i \in 1..Len(changes) |-> ages[changes[i]]], <<>>)
         IN  format_delta(wantages[Len(wantages) \div 2 + 1])

RECURSIVE InsertId(_, _, _)
InsertId(sorted, id, ages) ==
    IF sorted = <<>> THEN <<id>>
    ELSE IF ages[id] < ages[Head(sorted)] THEN <<id>> \o sorted
    ELSE <<Head(sorted)>> \o InsertId(Tail(sorted), id, ages)

\* sorted(ids, key=lambda x: ages[x]): a stable ascending sort into a new list
RECURSIVE SortedIds(_, _, _)
SortedIds(ids, ages, done) ==
    IF ids = <<>> THEN done
    ELSE SortedIds(Tail(ids), ages, InsertId(done, Head(ids), ages))

\* faulty variant: only the first count entries of the order are returned
get_longest_changes_first_count(ids, changes, ages, count) ==
    LET want == SortedIds(ids, ages, <<>>)
    IN  [k \in 1..Min(count, Len(want)) |-> changes[want[k]]]

\* get_longest_changes(ids, changes, ages, count); count is not read
get_longest_changes(ids, changes, ages, count) ==
    LET want == SortedIds(ids, ages, <<>>)
    IN  [k \in 1..Len(want) |-> changes[want[k]]]


Ids == {1, 2, 3, 4}
Ages == {10, 20, 30, 40}
\* the changes dict of generate: the entity stored under each id
ChangesById == [id \in Ids |-> [id |-> id, status |-> "NEW"]]
\* the count argument: below, inside and above the bucket lengths
Counts == {0, 2, 5}
\* the buckets: lists of change ids
Buckets == UNION { [1..n -> Ids] : n \in 0..MaxBucket }

InitAge ==
    /\ \E changes \in Buckets, ages \in [Ids -> Ages] :
          fin = [changes |-> changes, ages |-> ages]
    /\ fout = NoFout
    /\ table = NoTable
    /\ added = <<>>
    /\ out = NoOut
    /\ lst = NoList
    /\ lout = NoOut
    /\ report = NoReport
    /\ call = NoCall

AgeMedian ==
    /\ fout' = <<[op |-> "median_age", val |-> median_age(fin.changes, fin.ages)]>>
    /\ UNCHANGED <<fin, table, added, out, lst, lout, report, call>>

\* the same call on the bucket without its last id
AgeMedianOfPrefix ==
    /\ Len(fin.changes) > 0
    /\ LET changes == SubSeq(fin.changes, 1, Len(fin.changes) - 1)
       IN  /\ fin' = [fin EXCEPT !.changes = changes]
           /\ fout' = <<[op |-> "median_age", val |-> median_age(changes, fin.ages)]>>
    /\ UNCHANGED <<table, added, out, lst, lout, report, call>>

\* get_longest_changes over the bucket, with changes holding every id
AgeLongest ==
    /\ \E count \in Counts :
          fout' = <<[op |-> "get_longest_changes", count |-> count,
                     val |-> get_longest_changes(fin.changes, ChangesById,
                                                 fin.ages, count)]>>
    /\ UNCHANGED <<fin, table, added, out, lst, lout, report, call>>

NextAge ==
    \/ AgeMedian
    \/ AgeMedianOfPrefix
    \/ AgeLongest

SpecAge == InitAge /\ [][NextAge]_vars

-----------------------------------------------------------------------------
(* Properties of the rendered list *)

ListRendered(f) == lout[f] # <<>>
ListOk(f) == ListRendered(f) /\ lout[f][1].raised = ""
Keys(cols) == [i \in 1..Len(cols) |-> cols[i].key]
Labels(cols) == [i \in 1..Len(cols) |-> cols[i].label]
Tags(elems) == [i \in 1..Len(elems) |-> elems[i].tag]
DictKeys(dict) == [i \in 1..Len(dict) |-> dict[i].k]
\* the label of a text line: what stands between the indentation and the colon
RECURSIVE LineLabel(_)
LineLabel(line) ==
    IF line = <<>> \/ Head(line) = ":" THEN <<>>
    ELSE IF Head(line) = " " THEN LineLabel(Tail(line))
    ELSE <<Head(line)>> \o LineLabel(Tail(line))

\* C5 (lists): every rendering of a list shows the visible columns, in
\* declaration order, and nothing of a hidden column: the header and content keys of the tree and of the mapping, and
\* the labels of the text lines, are those of the visible columns.
C5_VisibleColumnsInOrder ==
    /\ ListOk("xml") =>
          /\ Tags(lout.xml[1].headers) = Keys(Visible(lst.columns))
          /\ Tags(lout.xml[1].content) = Keys(Visible(lst.columns))
    /\ ListOk("json") =>
          /\ DictKeys(lout.json[1].headers) = Keys(Visible(lst.columns))
          /\ DictKeys(lout.json[1].content) = Keys(Visible(lst.columns))
    /\ ListOk("text") =>
          [i \in 1..Len(lout.text[1].lines) |-> LineLabel(lout.text[1].lines[i])]
              = Labels(Visible(lst.columns))

\* C5 (tables): the same of the three renderings of a table, which the code
\* keeps
C5_TableVisibleColumnsInOrder ==
    /\ Rendered("xml") =>
          /\ Tags(out.xml[1].doc.headers) = Keys(Visible(table.columns))
          /\ \A r \in 1..Len(out.xml[1].doc.content) :
                Tags(out.xml[1].doc.content[r]) = Keys(Visible(table.columns))
    /\ Rendered("json") =>
          /\ DictKeys(out.json[1].doc.headers) = Keys(Visible(table.columns))
          /\ \A r \in 1..Len(out.json[1].doc.content) :
                DictKeys(out.json[1].doc.content[r]) = Keys(Visible(table.columns))
    /\ Rendered("text") =>
          /\ out.text[1].doc.fields = Labels(Visible(table.columns))
          /\ \A r \in 1..Len(out.text[1].doc.rows) :
                Len(out.text[1].doc.rows[r]) = Len(Visible(table.columns))

\* C6: a rendering of a list has exactly one entry per visible column: one
\* "label: value" line each in the text, none repeated and none for a hidden
\* column, and one header and one content entry each in the tree and in the
\* mapping.
C6_OneEntryPerVisibleColumn ==
    LET n == Len(Visible(lst.columns))
    IN  /\ ListOk("xml") =>
              Len(lout.xml[1].headers) = n /\ Len(lout.xml[1].content) = n
        /\ ListOk("json") =>
              Len(lout.json[1].headers) = n /\ Len(lout.json[1].content) = n
        /\ ListOk("text") =>
              /\ Len(lout.text[1].lines) = n
              /\ \A i, j \in 1..Len(lout.text[1].lines) :
                    i # j => lout.text[1].lines[i] # lout.text[1].lines[j]

\* what holds of the tree and of the mapping alone
C6_XmlJsonOneEntryPerVisibleColumn ==
    LET n == Len(Visible(lst.columns))
    IN  /\ ListOk("xml") =>
              Len(lout.xml[1].headers) = n /\ Len(lout.xml[1].content) = n
        /\ ListOk("json") =>
              Len(lout.json[1].headers) = n /\ Len(lout.json[1].content) = n

-----------------------------------------------------------------------------
(* Properties of ReportTable *)

HasKey(columns, key) == \E i \in 1..Len(columns) : columns[i].key = key

\* C4: ReportTable(...) and set_sort_column raise exactly when the sort key
\* is the key of no column of the report, the default key None included, and
\* otherwise leave the key and reverse given in the report's sort and reverse
\* fields; no report holds a sort key that none of its columns has.
C4_UnknownSortKeyRaises ==
    /\ call.op \in {"init", "set_sort_column"} =>
          /\ call.raised = "Exception" <=> ~HasKey(call.columns, call.key)
          /\ call.raised = "" =>
                /\ report.columns = call.columns
                /\ report.sort = call.key
                /\ report.reverse = call.reverse
    /\ report # NoReport => HasKey(report.columns, report.sort)

C4_Witness ==
    /\ call.op = "init"
    /\ call.key = NoKey
    /\ call.raised = "Exception"
    /\ report # NoReport
    /\ report.reverse

-----------------------------------------------------------------------------
(* Properties of the column and of the aggregation helpers *)

Returned(op) == fout # <<>> /\ fout[1].op = op

C9_RatioNeverRaises ==
    Returned("ratio") =>
        LET votes == fin[2].votes
            plus == votes["flag-p2"] + votes["flag-p1"]
            minus == votes["flag-m2"] + votes["flag-m1"]
        IN  /\ fout[1].res.raised = ""
            /\ plus + minus > 0 => fout[1].res.val = Rational(plus * 100, plus + minus)

\* what holds of ratio_mapfunc: the ratio, for a row with a vote
C9_RatioOfVotes ==
    Returned("ratio") =>
        LET votes == fin[2].votes
            plus == votes["flag-p2"] + votes["flag-p1"]
            minus == votes["flag-m2"] + votes["flag-m1"]
        IN  IF plus + minus > 0
            THEN fout[1].res = [raised |-> "", val |-> Rational(plus * 100, plus + minus)]
            ELSE fout[1].res.raised = "ZeroDivisionError"

\* the age at index k (from 0) of the ascending order of a bucket's ages:
\* at most k ages are below it and more than k are at most it
AgeAtRank(changes, ages, k) ==
    CHOOSE x \in Ages :
        /\ Cardinality({i \in 1..Len(changes) : ages[changes[i]] < x}) <= k
        /\ Cardinality({i \in 1..Len(changes) : ages[changes[i]] <= x}) > k

\* C10: median_age of a bucket of n > 0 ids returns the element at index
\* floor(n / 2) (from 0) of its ages in ascending order, and 0 for an empty
\* bucket.
C10_MedianIsElement ==
    Returned("median_age") =>
        fout[1].val = IF Len(fin.changes) = 0 THEN PyInt(0)
                      ELSE PyInt(AgeAtRank(fin.changes, fin.ages, Len(fin.changes) \div 2))

\* C10 (amended): median_age of a bucket of n > 0 ids returns format_delta of
\* the element at index floor(n / 2) (from 0) of its ages in ascending order,
\* a text and not the number, and the integer 0 for an empty bucket.
C10_MedianIsFormattedElement ==
    Returned("median_age") =>
        fout[1].val = IF Len(fin.changes) = 0 THEN PyInt(0)
                      ELSE format_delta(
                               AgeAtRank(fin.changes, fin.ages, Len(fin.changes) \div 2))

C10_Witness ==
    /\ Returned("median_age")
    /\ Len(fin.changes) = 4
    /\ {fin.ages[fin.changes[i]] : i \in 1..4} = {10, 20, 30, 40}
    /\ fin.ages[fin.changes[1]] = 40
    /\ fout[1].val = format_delta(30)

-----------------------------------------------------------------------------
(* ReportBaseChange columns and ReportOpenReviewStats.generate over changes
   whose optional fields may be absent *)

MaxDeliver == 3

\* ModelApproval.ACTION_REVIEWED and ACTION_VERIFIED
ACTION_REVIEWED == <<"C", "o", "d", "e", "-", "R", "e", "v", "i", "e", "w">>
ACTION_VERIFIED == <<"V", "e", "r", "i", "f", "i", "e", "d">>
Approval(action, value) == [action |-> action, value |-> value]

\* what get_current_patch(), get_first_patch() and
\* get_reviewer_not_nacked_patch() return: None or a patch, of which the
\* reports read is_nacked(), get_age(now) and approvals
NoPatch == <<>>
Patch(nacked, age, approvals) ==
    <<[nacked |-> nacked, age |-> age, approvals |-> approvals]>>

\* row.owner: None, or a user whose username may be None
NoOwner == <<>>
Owner(username) == <<[username |-> username]>>

Change(id, status, owner, subject, current, first, nonnacked) ==
    [id |-> id, status |-> status, owner |-> owner, subject |-> subject,
     topic |-> None, current |-> current, first |-> first,
     nonnacked |-> nonnacked]

\* the changes a query delivers
OpenChanges ==
    { Change(1, "NEW", Owner(PyStr(<<"u">>)), PyStr(<<"s", "1">>),
             Patch(FALSE, 20, <<>>), Patch(FALSE, 30, <<>>),
             Patch(FALSE, 20, <<>>)),
      Change(2, "NEW", Owner(None), PyStr(<<"s", "2">>),
             Patch(TRUE, 10, <<Approval(ACTION_REVIEWED, -1)>>),
             Patch(FALSE, 30, <<>>), Patch(FALSE, 30, <<>>)),
      Change(3, "NEW", NoOwner, None,
             Patch(FALSE, 20, <<Approval(ACTION_REVIEWED, 2),
                                Approval(ACTION_VERIFIED, 1),
                                Approval(ACTION_REVIEWED, 1)>>),
             Patch(FALSE, 20, <<>>), Patch(FALSE, 20, <<>>)),
      Change(4, "MERGED", Owner(PyStr(<<"u">>)), PyStr(<<"s", "4">>),
             Patch(FALSE, 10, <<Approval(ACTION_REVIEWED, 2)>>),
             Patch(FALSE, 10, <<>>), Patch(FALSE, 10, <<>>)),
      Change(5, "NEW", Owner(PyStr(<<"u">>)), PyStr(<<"s", "5">>),
             NoPatch, NoPatch, NoPatch),
      Change(6, "NEW", NoOwner, PyStr(<<"s", "6">>),
             Patch(TRUE, 40, <<Approval(ACTION_VERIFIED, -1)>>),
             Patch(TRUE, 40, <<>>), NoPatch),
      Change(7, "ABANDONED", NoOwner, None, NoPatch, NoPatch, NoPatch) }

\* d[k] of a dict that has the key
DictGet(d, k) == d[CHOOSE i \in 1..Len(d) : d[i].k = k].v
DictHas(d, k) == \E i \in 1..Len(d) : d[i].k = k

\* action[0:1].lower() of the actions above
Lower(ch) == CASE ch = "C" -> "c" [] ch = "V" -> "v" [] OTHER -> ch
GotType(action) == IF action = <<>> THEN <<>> ELSE <<Lower(action[1])>>

\* the vals dict of approvals_mapfunc: the values of each type, as texts
RECURSIVE ApprovalVals(_, _)
ApprovalVals(approvals, vals) ==
    IF approvals = <<>> THEN vals
    ELSE LET approval == Head(approvals)
             got_type == GotType(approval.action)
             sofar == IF DictHas(vals, got_type) THEN DictGet(vals, got_type)
                      ELSE <<>>
         IN  ApprovalVals(Tail(approvals),
                          DictSet(vals, got_type,
                                  Append(sofar, IntToStr(approval.value))))

\* the order of the one-letter keys
CharOrd(key) == CASE key = <<"c">> -> 1 [] key = <<"v">> -> 2 [] OTHER -> 0

RECURSIVE InsertKeyDescending(_, _)
InsertKeyDescending(sorted, key) ==
    IF sorted = <<>> THEN <<key>>
    ELSE IF CharOrd(key) > CharOrd(Head(sorted)) THEN <<key>> \o sorted
    ELSE <<Head(sorted)>> \o InsertKeyDescending(Tail(sorted), key)

\* keys.sort(reverse=True)
RECURSIVE SortKeysDescending(_, _)
SortKeysDescending(keys, done) ==
    IF keys = <<>> THEN done
    ELSE SortKeysDescending(Tail(keys), InsertKeyDescending(done, Head(keys)))

\* sep.join(parts)
RECURSIVE Join(_, _)
Join(sep, parts) ==
    IF parts = <<>> THEN <<>>
    ELSE IF Len(parts) = 1 THEN parts[1]
    ELSE parts[1] \o sep \o Join(sep, Tail(parts))

\* format_color(data, fg) of gerrymander.format: the text in a colour
format_color(data, fg) == PyStr(<<fg>> \o data \o <<"reset">>)

\* approvals_mapfunc(rep, col, row)
approvals_mapfunc(usecolor, row) ==
    IF row.current = NoPatch THEN PyStr(<<>>)
    ELSE LET approvals == row.current[1].approvals
             vals == ApprovalVals(approvals, <<>>)
             neg == \E i \in 1..Len(approvals) : approvals[i].value < 0
             plus == \E i \in 1..Len(approvals) :
                        /\ approvals[i].action = ACTION_REVIEWED
                        /\ approvals[i].value > 1
             keys == SortKeysDescending(DictKeys(vals), <<>>)
             data == Join(<<" ">>,
                          [k \in 1..Len(keys) |->
                              keys[k] \o <<"=">> \o Join(<<",">>, DictGet(vals, keys[k]))])
         IN  IF neg /\ usecolor THEN format_color(data, "red")
             ELSE IF plus /\ usecolor THEN format_color(data, "green")
             ELSE PyStr(data)

\* user_mapfunc(rep, col, row); an empty username is false too
user_mapfunc(row) ==
    IF row.owner = NoOwner \/ row.owner[1].username = None
                           \/ row.owner[1].username = PyStr(<<>>)
    THEN PyStr(<<"<", "u", "n", "k", "n", "o", "w", "n", ">">>)
    ELSE row.owner[1].username

\* ReportBaseChange.COLUMNS without the url, project, branch and date
\* columns; url, project and branch read one field as status and topic do
BaseCOLUMNS ==
    << Column("status", <<"Status">>, "status", NoFunc, NoFormat, 0, ALIGN_LEFT, TRUE),
       Column("topic", <<"Topic">>, "topic", NoFunc, NoFormat, 0, ALIGN_LEFT, FALSE),
       Column("owner", <<"Owner">>, "owner", NoFunc, NoFormat, 0, ALIGN_LEFT, TRUE),
       Column("subject", <<"Subject">>, "subject", NoFunc, NoFormat, 30, ALIGN_LEFT, TRUE),
       Column("approvals", <<"Approvals">>, "approvals", NoFunc, NoFormat, 0, ALIGN_LEFT, TRUE) >>

\* what the mapfuncs of the columns return for a change
MappedRow(usecolor, change) ==
    [status |-> PyStr(<<change.status>>), topic |-> change.topic,
     owner |-> user_mapfunc(change), subject |-> change.subject,
     approvals |-> approvals_mapfunc(usecolor, change)]

\* a dict as the function from its keys to their values
DictFn(d) == [k \in {d[i].k : i \in 1..Len(d)} |-> DictGet(d, k)]

\* the locals of ReportOpenReviewStats.generate, with the changes delivered
\* so far, the exception that ended the call and whether it has returned
GenerateLocals(usecolor) ==
    [usecolor |-> usecolor, delivered |-> <<>>, changes |-> <<>>,
     wait_reviewer |-> <<>>, wait_submitter |-> <<>>,
     agecurrent |-> <<>>, agefirst |-> <<>>, agenonnacked |-> <<>>,
     raised |-> "", returned |-> FALSE]

\* querycb(change): current.is_nacked() and the get_age calls are made on
\* whatever the change returned, None included
querycb(g, change) ==
    LET id == change.id
        stored == [g EXCEPT !.changes = DictSet(@, id, change)]
        bucketed ==
            IF change.current[1].nacked
            THEN [stored EXCEPT !.wait_submitter = Append(@, id)]
            ELSE [stored EXCEPT !.wait_reviewer = Append(@, id)]
        aged == [bucketed EXCEPT
                    !.agecurrent = DictSet(@, id, change.current[1].age)]
    IN  IF change.status # "NEW" THEN g
        ELSE IF change.current = NoPatch
        THEN [stored EXCEPT !.raised = "AttributeError"]
        ELSE IF change.first = NoPatch
        THEN [aged EXCEPT !.raised = "AttributeError"]
        ELSE [aged EXCEPT
                 !.agefirst = DictSet(@, id, change.first[1].age),
                 !.agenonnacked =
                     DictSet(@, id, IF change.nonnacked # NoPatch
                                    THEN change.nonnacked[1].age ELSE 0)]

\* the reports generate builds after the queries: the review summary, the
\* three median wait times and the rows of the three "Longest waiting" tables
Compound(g) ==
    LET row == <<Len(g.wait_submitter), Len(g.wait_reviewer)>>
        changes == DictFn(g.changes)
    IN  [summary |->
            [nreviews |-> FormatPercent("%d", PyInt(row[1] + row[2])).val,
             waitsubmitter |-> FormatPercent("%d", PyInt(row[1])).val,
             waitreviewer |-> FormatPercent("%d", PyInt(row[2])).val],
         median |->
            << median_age(g.wait_reviewer, DictFn(g.agecurrent)),
               median_age(g.wait_reviewer, DictFn(g.agefirst)),
               median_age(g.wait_reviewer, DictFn(g.agenonnacked)) >>,
         longest |->
            << get_longest_changes(g.wait_reviewer, changes, DictFn(g.agecurrent), 5),
               get_longest_changes(g.wait_reviewer, changes, DictFn(g.agefirst), 5),
               get_longest_changes(g.wait_reviewer, changes, DictFn(g.agenonnacked), 5) >>]

InitOpen ==
    /\ \E usecolor \in BOOLEAN : fin = GenerateLocals(usecolor)
    /\ fout = NoFout
    /\ table = NoTable
    /\ added = <<>>
    /\ out = NoOut
    /\ lst = NoList
    /\ lout = NoOut
    /\ report = NoReport
    /\ call = NoCall

\* query.run delivers one more change to querycb
OpenQuerycb ==
    /\ fin.raised = ""
    /\ ~fin.returned
    /\ Len(fin.delivered) < MaxDeliver
    /\ \E change \in OpenChanges :
          fin' = [querycb(fin, change) EXCEPT !.delivered = Append(@, change)]
    /\ UNCHANGED <<fout, table, added, out, lst, lout, report, call>>

\* the queries are over: generate builds the compound and returns it
OpenReturn ==
    /\ fin.raised = ""
    /\ ~fin.returned
    /\ fin' = [fin EXCEPT !.returned = TRUE]
    /\ fout' = <<[op |-> "generate", val |-> Compound(fin)]>>
    /\ UNCHANGED <<table, added, out, lst, lout, report, call>>

\* a table of the report renders a cell: column.get_value(report, change)
OpenGetValue ==
    /\ \E change \in OpenChanges, k \in 1..Len(BaseCOLUMNS) :
          fout' = <<[op |-> "get_value", change |-> change,
                     key |-> BaseCOLUMNS[k].key,
                     res |-> get_value(BaseCOLUMNS[k],
                                       MappedRow(fin.usecolor, change))]>>
    /\ UNCHANGED <<fin, table, added, out, lst, lout, report, call>>

NextOpen ==
    \/ OpenQuerycb
    \/ OpenReturn
    \/ OpenGetValue

SpecOpen == InitOpen /\ [][NextOpen]_vars

-----------------------------------------------------------------------------
(* The column lists as objects: the list of the class, the attribute of a
   report and the attribute of each table are references into a heap of
   lists *)

MaxTables == 6
MaxAdded == 2

\* ReportBaseChange.COLUMNS is the first list of the heap
COLUMNS_REF == 1

\* the "age" columns of the three "Longest waiting" tables
AgeColumn(ages) == Column("age", <<"Age">>, ages, ages, NoFormat, 0, ALIGN_LEFT, TRUE)
AgeColumns == <<AgeColumn("agecurrent"), AgeColumn("agefirst"),
                AgeColumn("agenonnacked")>>
LongestTitles ==
    << <<"Longest waiting since current revision">>,
       <<"Longest waiting since first revision">>,
       <<"Longest waiting since last revision without -1/-2 from reviewer">> >>

\* faulty variant: the table keeps the list it is given
ListCopy_alias(heap, ref) == [heap |-> heap, ref |-> ref]

\* list(columns): a new list with the same elements
ListCopy(heap, ref) == [heap |-> Append(heap, heap[ref]), ref |-> Len(heap) + 1]

\* ReportOutputTable(columns, ...) with columns a reference
TableObject(heap, columns, sortcol, reverse, limit, title) ==
    LET copy == ListCopy(heap, columns)
    IN  [heap |-> copy.heap,
         table |-> [columns |-> copy.ref, sortcol |-> sortcol,
                    reverse |-> reverse, limit |-> limit, title |-> title]]

\* ReportBaseChange.__init__: self.columns is the list of the class
BaseChangeObject(usecolor) ==
    [columns |-> COLUMNS_REF, sort |-> "createdOn", reverse |-> FALSE,
     limit |-> <<>>, usecolor |-> <<usecolor>>]

\* report.new_table(title)
NewTableObject(heap, r, title) ==
    TableObject(heap, r.columns, r.sort, r.reverse, r.limit, title)

\* table.add_column(col)
AddColumnObject(heap, t, col) == [heap EXCEPT ![t.columns] = Append(@, col)]

\* the k-th "Longest waiting" table of generate: new_table, add_column of
\* the age column, sortcol = "age", reverse = True
LongestTable(heap, r, k) ==
    LET new == NewTableObject(heap, r, LongestTitles[k])
    IN  [heap |-> AddColumnObject(new.heap, new.table, AgeColumns[k]),
         table |-> [new.table EXCEPT !.sortcol = "age", !.reverse = TRUE]]

\* the three tables generate makes, one after the other
LongestTables(heap, r) ==
    LET t1 == LongestTable(heap, r, 1)
        t2 == LongestTable(t1.heap, r, 2)
        t3 == LongestTable(t2.heap, r, 3)
    IN  [heap |-> t3.heap, tables |-> <<t1.table, t2.table, t3.table>>]

\* a column a caller adds to a table it got
AddedColumns == {AgeColumn("agecurrent"), ColH}

InitObjects ==
    /\ \E usecolor \in BOOLEAN :
          fin = [heap |-> <<BaseCOLUMNS>>, report |-> BaseChangeObject(usecolor),
                 tables |-> <<>>, added |-> 0]
    /\ fout = NoFout
    /\ table = NoTable
    /\ added = <<>>
    /\ out = NoOut
    /\ lst = NoList
    /\ lout = NoOut
    /\ report = NoReport
    /\ call = NoCall

\* report.generate() of ReportOpenReviewStats: the tables of the compound
ObjectsGenerate ==
    /\ Len(fin.tables) + 3 <= MaxTables
    /\ LET res == LongestTables(fin.heap, fin.report)
       IN  /\ fin' = [fin EXCEPT !.heap = res.heap, !.tables = @ \o res.tables]
           /\ fout' = <<[op |-> "generate",
                         val |-> [k \in 1..3 |-> res.heap[res.tables[k].columns]]]>>
    /\ UNCHANGED <<table, added, out, lst, lout, report, call>>

\* report.new_table("Changes"), as the listing reports call it
ObjectsNewTable ==
    /\ Len(fin.tables) < MaxTables
    /\ LET res == NewTableObject(fin.heap, fin.report, <<"Changes">>)
       IN  /\ fin' = [fin EXCEPT !.heap = res.heap,
                                 !.tables = Append(@, res.table)]
           /\ fout' = <<[op |-> "new_table", val |-> res.heap[res.table.columns]]>>
    /\ UNCHANGED <<table, added, out, lst, lout, report, call>>

\* add_column on one of the tables made so far; added counts these calls
ObjectsAddColumn ==
    /\ fin.added < MaxAdded
    /\ \E k \in 1..Len(fin.tables), col \in AddedColumns :
          /\ fin' = [fin EXCEPT !.heap = AddColumnObject(fin.heap, fin.tables[k], col),
                                 !.added = @ + 1]
          /\ fout' = <<[op |-> "add_column", val |-> fin'.heap[fin.tables[k].columns]]>>
    /\ UNCHANGED <<table, added, out, lst, lout, report, call>>

NextObjects ==
    \/ ObjectsGenerate
    \/ ObjectsNewTable
    \/ ObjectsAddColumn

SpecObjects == InitObjects /\ [][NextObjects]_vars

-----------------------------------------------------------------------------
(* The listing reports: ReportChanges and the ReportToDoList family *)

\* re.search(filere, path) for a pattern without metacharacters: the
\* pattern occurs somewhere in the path
re_search(filere, path) ==
    \E i \in 0..(Len(path) - Len(filere)) :
        SubSeq(path, i + 1, i + Len(filere)) = filere

\* for file in patch.files: if re.search(filere, file.path): return True
RECURSIVE SearchFiles(_, _)
SearchFiles(filere, files) ==
    IF files = <<>> THEN FALSE
    ELSE IF re_search(filere, Head(files)) THEN TRUE
    ELSE SearchFiles(filere, Tail(files))

\* for patch in change.patches
RECURSIVE SearchPatches(_, _)
SearchPatches(filere, patches) ==
    IF patches = <<>> THEN FALSE
    ELSE IF SearchFiles(filere, Head(patches).files) THEN TRUE
    ELSE SearchPatches(filere, Tail(patches))

\* for filere in self.files
RECURSIVE SearchPatterns(_, _)
SearchPatterns(files, patches) ==
    IF files = <<>> THEN FALSE
    ELSE IF SearchPatches(Head(files), patches) THEN TRUE
    ELSE SearchPatterns(Tail(files), patches)

\* faulty variant: only the last patch of the change is searched
match_files_last_patch(files, change) ==
    IF Len(files) = 0 THEN TRUE
    ELSE IF change.patches = <<>> THEN FALSE
    ELSE SearchPatterns(files, <<change.patches[Len(change.patches)]>>)

\* match_files(change) of ReportChanges.generate, with self.files
match_files(files, change) ==
    IF Len(files) = 0 THEN TRUE
    ELSE SearchPatterns(files, change.patches)

\* the report classes with a listing generate()
ListingReports == {"ReportChanges", "ReportToDoList", "ReportToDoListMine",
                   "ReportToDoListOthers", "ReportToDoListAnyones",
                   "ReportToDoListNoones"}

\* self.filter(change) of the ReportToDoList classes; a change carries what
\* has_current_reviewers([username]) and has_any_other_reviewers(bots) return
filter(class, change) ==
    CASE class = "ReportToDoList" -> TRUE
      [] class = "ReportToDoListMine" -> ~change.current_reviewers
      [] class = "ReportToDoListOthers" -> change.other_reviewers
      [] class = "ReportToDoListAnyones" ->
             IF change.current_reviewers THEN FALSE ELSE change.other_reviewers
      [] class = "ReportToDoListNoones" -> ~change.other_reviewers

\* the test querycb makes before table.add_row(change)
ListingTest(r, change) ==
    IF r.class = "ReportChanges" THEN match_files(r.files, change)
    ELSE filter(r.class, change)

ListingTitle(class) ==
    IF class = "ReportChanges" THEN <<"Changes">> ELSE <<"Changes To Do List">>

\* the file patterns of a ReportChanges
FilePatterns == { <<>>, << <<"a">> >>, << <<"z">>, <<"b", "c">> >> }

ListingChange(id, patches, current_reviewers, other_reviewers) ==
    [id |-> id, patches |-> patches, current_reviewers |-> current_reviewers,
     other_reviewers |-> other_reviewers]
PatchFiles(files) == [files |-> files]

\* the changes a query delivers: the paths of the files of their patches
ListingChanges ==
    { ListingChange(1, << PatchFiles(<< <<"a", "b">> >>) >>, TRUE, TRUE),
      ListingChange(2, << PatchFiles(<< <<"c">> >>),
                          PatchFiles(<< <<"c">>, <<"b", "c">> >>) >>, FALSE, TRUE),
      ListingChange(3, <<>>, FALSE, FALSE),
      ListingChange(4, << PatchFiles(<<>>) >>, TRUE, FALSE),
      ListingChange(5, << PatchFiles(<< <<"x", "b", "c">> >>),
                          PatchFiles(<< <<"c">> >>) >>, FALSE, FALSE) }

\* generate() up to query.run: the report, its new table and no change yet
InitListing ==
    /\ \E class \in ListingReports, files \in FilePatterns :
          /\ files # <<>> => class = "ReportChanges"
          /\ fin = [class |-> class, files |-> files, delivered |-> <<>>,
                    table |-> ReportOutputTable(BaseCOLUMNS, "createdOn", FALSE,
                                                <<>>, ListingTitle(class))]
    /\ fout = NoFout
    /\ table = NoTable
    /\ added = <<>>
    /\ out = NoOut
    /\ lst = NoList
    /\ lout = NoOut
    /\ report = NoReport
    /\ call = NoCall

\* query.run delivers one more change: querycb(change)
ListingQuerycb ==
    /\ Len(fin.delivered) < MaxDeliver
    /\ \E change \in ListingChanges :
          /\ fin' = [fin EXCEPT
                        !.delivered = Append(@, change),
                        !.table.rows = IF ListingTest(fin, change)
                                       THEN Append(@, change) ELSE @]
          /\ fout' = <<[op |-> "querycb", val |-> ListingTest(fin, change)]>>
    /\ UNCHANGED <<table, added, out, lst, lout, report, call>>

NextListing == ListingQuerycb

SpecListing == InitListing /\ [][NextListing]_vars

-----------------------------------------------------------------------------
(* Repeated rendering of a table *)

\* C17: rendering a table again, in any of the three formats and with no
\* add_row, add_column or sortcol/reverse change since the renderings held,
\* gives the row sequence every one of those renderings had, and the stored
\* rows stay a permutation of the rows added.
C17_RenderingIdempotent ==
    [][ /\ \A f, g \in Formats :
              (out'[f] # <<>> /\ out[g] # <<>>) => out'[f][1].ids = out[g][1].ids
        /\ \A f \in Formats :
              (out'[f] # <<>> /\ out[f] # <<>>) => out'[f][1].doc = out[f][1].doc
        /\ IsPermutation(table'.rows, added') ]_vars

C17_Witness ==
    /\ Rendered("xml") /\ Rendered("json") /\ Rendered("text")
    /\ Resolved /\ table.reverse
    /\ Len(added) = 3
    /\ table.rows # added
    /\ RenderedIds("text") = RowIds(table.rows)
    /\ \E i, j \in 1..3 : i # j /\ SortKey(i) = SortKey(j)

-----------------------------------------------------------------------------
(* ReportOpenReviewStats.get_longest_changes *)

\* the index (from 1) of ids[i] in the stable ascending order by age: after
\* every id of a smaller age and every earlier id of the same age
StableRank(ids, ages, i) ==
    1 + Cardinality({j \in 1..Len(ids) : ages[ids[j]] < ages[ids[i]]})
      + Cardinality({j \in 1..(i - 1) : ages[ids[j]] = ages[ids[i]]})

\* C16: get_longest_changes returns, for every count, one entity changes[id]
\* per element of ids, in ascending order of ages[id], ids of equal age in
\* their order in ids.
C16_LongestIsFullStableOrder ==
    Returned("get_longest_changes") =>
        /\ Len(fout[1].val) = Len(fin.changes)
        /\ \A i \in 1..Len(fin.changes) :
               fout[1].val[StableRank(fin.changes, fin.ages, i)]
                   = ChangesById[fin.changes[i]]

C16_Witness ==
    /\ Returned("get_longest_changes")
    /\ fout[1].count = 2
    /\ Len(fin.changes) = 4
    /\ Len(fout[1].val) = 4
    /\ fin.changes = <<3, 1, 2, 4>>
    /\ fin.ages[3] = 20 /\ fin.ages[1] = 10 /\ fin.ages[2] = 20 /\ fin.ages[4] = 10
    /\ [k \in 1..4 |-> fout[1].val[k].id] = <<1, 4, 3, 2>>

-----------------------------------------------------------------------------
(* ReportOpenReviewStats: the buckets, and changes with absent fields *)

\* the ids of the delivered changes of status NEW whose current patch is
\* (nacked = TRUE) or is not (nacked = FALSE) nacked, in delivery order; a
\* change without a current patch has no nacked one
NewIds(nacked) ==
    LET Wanted(c) == /\ c.status = "NEW"
                     /\ nacked = (c.current # NoPatch /\ c.current[1].nacked)
        sel == SelectSeq(fin.delivered, Wanted)
    IN  [i \in 1..Len(sel) |-> sel[i].id]

\* C11: after any sequence of querycb calls every delivered change of status
\* NEW is in exactly one bucket, wait_submitter iff its current patch is
\* nacked and wait_reviewer otherwise, other changes are in neither, and the
\* summary's total is the sum of the sizes of the buckets.
C11_EachNewChangeInOneBucket ==
    /\ fin.wait_submitter = NewIds(TRUE)
    /\ fin.wait_reviewer = NewIds(FALSE)
    /\ Returned("generate") =>
          fout[1].val.summary.nreviews
              = PyStr(IntToStr(Len(fin.wait_submitter) + Len(fin.wait_reviewer)))

Placeholder(change, key) ==
    CASE key = "owner" /\ (change.owner = NoOwner \/ change.owner[1].username = None)
             -> PyStr(<<"<", "u", "n", "k", "n", "o", "w", "n", ">">>)
      [] key = "approvals" /\ change.current = NoPatch -> PyStr(<<>>)
      [] key = "subject" /\ change.subject = None -> PyStr(<<>>)
      [] key = "topic" /\ change.topic = None -> PyStr(<<>>)
      [] OTHER -> fout[1].res.val

\* C13: a change with absent optional fields raises at no column and at no
\* aggregation: get_value of every column returns its placeholder, and
\* querycb of the open-review statistics completes when the current patch is
\* absent.
C13_AbsentFieldsNeverRaise ==
    /\ fin.raised = ""
    /\ Returned("get_value") =>
          /\ fout[1].res.raised = ""
          /\ fout[1].res.val = Placeholder(fout[1].change, fout[1].key)

-----------------------------------------------------------------------------
(* ReportPatchReviewStats *)

\* C12: a ReportPatchReviewStats can be constructed (and then generated,
\* with totals and vote buckets that match the reviews delivered): its
\* constructor returns a report and does not raise.
C12_PatchReviewStatsConstructs ==
    call.op = "ReportPatchReviewStats" =>
        /\ call.raised = ""
        /\ report # NoReport
        /\ report.columns = PatchReviewStatsCOLUMNS

-----------------------------------------------------------------------------
(* The column lists of a report and of its tables *)

AgeKeys(columns) == {i \in 1..Len(columns) : columns[i].key = "age"}

\* C14: the column list of the report, which is the list of the class, is
\* never changed: add_column on a table of new_table changes only that
\* table's list, every table starts with the declared columns, and each
\* "Longest waiting" table of each generate() has exactly one column of key
\* "age".
C14_ReportColumnsNeverMutated ==
    /\ fin.heap[COLUMNS_REF] = BaseCOLUMNS
    /\ fin.heap[fin.report.columns] = BaseCOLUMNS
    /\ \A k \in 1..Len(fin.tables) :
          /\ fin.tables[k].columns # fin.report.columns
          /\ SubSeq(fin.heap[fin.tables[k].columns], 1, Len(BaseCOLUMNS)) = BaseCOLUMNS
    /\ Returned("new_table") => fout[1].val = BaseCOLUMNS
    /\ Returned("generate") =>
          \A k \in 1..3 :
              /\ fout[1].val[k] = Append(BaseCOLUMNS, AgeColumns[k])
              /\ Cardinality(AgeKeys(fout[1].val[k])) = 1

C14_Witness ==
    /\ Returned("generate")
    /\ Len(fin.tables) = 6
    /\ \A k \in 1..6 : fin.tables[k].sortcol = "age"
    /\ Cardinality(AgeKeys(fin.heap[fin.tables[1].columns])) = 2
    /\ fin.heap[fin.tables[2].columns] = Append(BaseCOLUMNS, AgeColumns[2]) \o <<ColH>>

-----------------------------------------------------------------------------
(* The rows of a listing report *)

\* some pattern occurs in some path of some file of some patch
SomePatternMatches(files, change) ==
    \E f \in 1..Len(files), q \in 1..Len(change.patches) :
        \E k \in 1..Len(change.patches[q].files) :
            LET filere == files[f]
                path == change.patches[q].files[k]
            IN  \E i \in 1..Len(path) :
                    /\ i + Len(filere) - 1 <= Len(path)
                    /\ \A j \in 1..Len(filere) : path[i + j - 1] = filere[j]

\* the in-process filter of each listing report
Passes(change) ==
    CASE fin.class = "ReportChanges" ->
             fin.files = <<>> \/ SomePatternMatches(fin.files, change)
      [] fin.class = "ReportToDoList" -> TRUE
      [] fin.class = "ReportToDoListMine" -> ~change.current_reviewers
      [] fin.class = "ReportToDoListOthers" -> change.other_reviewers
      [] fin.class = "ReportToDoListAnyones" ->
             ~change.current_reviewers /\ change.other_reviewers
      [] fin.class = "ReportToDoListNoones" -> ~change.other_reviewers

\* C15: the rows of the table of a listing report are the delivered changes
\* that pass the report's filter, in the order of delivery, each once per
\* delivery; a ReportChanges passes a change iff it has no file pattern or
\* some pattern matches some file path of some patch.
C15_RowsAreFilteredDeliveries ==
    fin.table.rows = SelectSeq(fin.delivered, Passes)

C15_Witness ==
    /\ fin.class = "ReportChanges"
    /\ Len(fin.files) = 2
    /\ Len(fin.delivered) = 3
    /\ fin.delivered[1].id = 5 /\ fin.delivered[2].id = 1 /\ fin.delivered[3].id = 5
    /\ Len(fin.table.rows) = 2
    /\ fin.table.rows[1].id = 5 /\ fin.table.rows[2].id = 5
    /\ fout[1].val

====
